---- MODULE Spec2Model ----
(***************************************************************************)
(* Model of the payload-greenhouse plugin: the job cache kept in the host  *)
(* CMS's 'greenhouse-jobs' collection and the REST handlers of             *)
(* src/utils/greenhouseApi.ts (the cached variant) and of the              *)
(* environment-configured variant (office tree, flatten/dedupe).           *)
(*                                                                         *)
(* One handler invocation is one step: the step runs the handler from its  *)
(* first line to its return, with the answers of the external API and of   *)
(* the document store drawn as inputs.  The invocation leaves its request  *)
(* in req, its response in resp and the upstream requests and store        *)
(* writes it issued, in order, in log.  Deliver hands the response to the  *)
(* client and makes the server idle again.                                 *)
(***************************************************************************)
EXTENDS Integers, Sequences, FiniteSets

VARIABLES
    cache,        \* documents of 'greenhouse-jobs', in the order find lists them
    nextId,       \* next document id the store hands out
    now,          \* wall clock, milliseconds
    pluginOptions,\* options given to payloadGreenhouse(), fixed at start-up
    offices,      \* office tree the upstream /offices endpoint answers with
    busy,         \* TRUE while req/resp/log describe an undelivered invocation
    req,          \* the request of the last invocation and what it was answered
    resp,         \* the Response the last invocation returned
    log,          \* upstream requests and store writes of the last invocation
    cacheBefore,  \* the collection as it was when the last invocation started
    prevOp,       \* which invocation came before the last one
    syncs         \* the GET /jobs invocations that run await by await

vars == <<cache, nextId, now, pluginOptions, offices, busy, req, resp, log,
          cacheBefore, prevOp, syncs>>

----------------------------------------------------------------------------
(* Bounds of the model *)

MaxJobs == 3          \* longest upstream job list
MaxFailures == 1      \* jobs of one sync whose detail fetch or create fails
MaxDocId == 3         \* document ids the store hands out
MaxTicks == 1         \* one-second clock ticks before/after the long wait

(* Program constants *)

FindLimit == 1000           \* limit: 1000 of the two find calls
DefaultCacheTime == 3600    \* ... || 3600
MsPerSecond == 1000         \* cacheTime * 1000

Min(a, b) == IF a < b THEN a ELSE b

Range(s) == {s[i] : i \in 1..Len(s)}

----------------------------------------------------------------------------
(* The document store (host CMS), as the handlers use it *)

NewDoc(id, jobId, t) == [id |-> id, jobId |-> jobId, updatedAt |-> t]

\* payload.find({collection: 'greenhouse-jobs', limit: 1000}).docs: one page of
\* at most FindLimit documents, in the store's listing order (newest first).
Find(c) == SubSeq(c, 1, Min(Len(c), FindLimit))

\* payload.create: the store stamps updatedAt and lists the new document first.
Create(c, doc) == <<doc>> \o c

\* the loop of payload.delete({id: job.id}) over the first k documents of docs
DeleteAll(c, docs, k) ==
    LET gone == {docs[i].id : i \in 1..k}
    IN  SelectSeq(c, LAMBDA d : d.id \notin gone)

RECURSIVE CreateAll(_, _)
CreateAll(c, docs) ==
    IF docs = <<>> THEN c ELSE CreateAll(Create(c, Head(docs)), Tail(docs))

----------------------------------------------------------------------------
(* Inputs of an invocation *)

NoSettings == [present |-> FALSE, urlToken |-> FALSE, apiKey |-> FALSE,
               cacheExpiryTime |-> 0]

\* the first document of 'greenhouse-settings'; a field left empty is falsy
SettingsDocs ==
    {NoSettings} \cup
    [present : {TRUE}, urlToken : BOOLEAN, apiKey : BOOLEAN,
     cacheExpiryTime : {0, 1}]

\* the settings as one handler reads them: the fields it does not read are
\* left empty
JobsSettings == {s \in SettingsDocs : ~s.apiKey}
ApplySettings == {s \in SettingsDocs : ~s.urlToken /\ s.cacheExpiryTime = 0}

\* urlToken, apiKey: the option or its environment variable is set
PluginOptionSets ==
    [cacheExpiryTime : {0, 2}, urlToken : BOOLEAN, apiKey : BOOLEAN]

ErrorStatuses == {401, 404, 500}

\* upstream job lists: up to MaxJobs jobs, the i-th being a new job (i) or job
\* 1 once more, so that lists of distinct jobs and lists repeating a job occur
JobLists ==
    UNION {{s \in [1..n -> 1..MaxJobs] : \A i \in 1..n : s[i] \in {1, i}} :
           n \in 0..MaxJobs}

\* what happens to one job of a sync
Outcomes == {"ok", "detail_status", "detail_throw", "create_throw"}

OutcomeMaps(n) ==
    {oc \in [1..n -> Outcomes] :
        Cardinality({i \in 1..n : oc[i] # "ok"}) <= MaxFailures}

Event(ev, arg) == [ev |-> ev, arg |-> arg]

NoList == [kind |-> "none", status |-> 0, jobs |-> <<>>]

\* a jobId as the hook sees it: a string or a number; n = 0: none, n < 0: a
\* text that is no positive number
NoJobId == [isString |-> FALSE, n |-> 0]

\* the fields of a job document the hook works on; "" and 0: undefined
NoData == [jobId |-> NoJobId, title |-> "", department |-> 0, office |-> 0,
           updatedAt |-> 0]

\* the host configuration as the plugin function reads and writes it: a list
\* that may be undefined; admin by how much of it exists (0: undefined, 1: {},
\* 2: {components: {}}, 3: {components: {beforeDashboard: []}})
Undefined == [defined |-> FALSE, list |-> <<>>]
Defined(list) == [defined |-> TRUE, list |-> list]

NoConfig == [collections |-> Undefined, endpoints |-> Undefined, admin |-> 0,
             onInit |-> "undefined"]

\* the options the plugin function reads: disabled, and the slugs that are
\* the keys of collections
NoOptions == [disabled |-> FALSE, collections |-> <<>>]

IdleReq == [op |-> "none", refresh |-> FALSE, settings |-> NoSettings,
            storeFails |-> "none", list |-> NoList, deleteFailAt |-> 0,
            outcome |-> <<>>, body |-> [parsed |-> FALSE, jobId |-> FALSE,
                                        formData |-> FALSE],
            at |-> 0, operation |-> "none", data |-> NoData,
            originalDoc |-> NoData, detail |-> NoList, config |-> NoConfig,
            options |-> NoOptions, configured |-> FALSE, variant |-> "none"]

IdleResp == [status |-> 0, kind |-> "none", body |-> <<>>, jobsRemoved |-> 0,
             totalJobs |-> 0, error |-> "none", loading |-> FALSE,
             settings |-> FALSE]

JsonResponse(status, kind, body) ==
    [status |-> status, kind |-> kind, body |-> body, jobsRemoved |-> 0,
     totalJobs |-> 0, error |-> "none", loading |-> FALSE, settings |-> FALSE]

\* mutant: the catch block answers with a success status
CaughtError_Status200 == JsonResponse(200, "error", <<>>)

\* the catch block of a handler: status 500 with the error's message
CaughtError == JsonResponse(500, "error", <<>>)

----------------------------------------------------------------------------
(* greenhouseJobsHandler, cached variant *)

\* settings.cacheExpiryTime || pluginOptions.cacheExpiryTime || 3600
CacheTime(settings, opts) ==
    IF settings.cacheExpiryTime # 0 THEN settings.cacheExpiryTime
    ELSE IF opts.cacheExpiryTime # 0 THEN opts.cacheExpiryTime
    ELSE DefaultCacheTime

LastUpdated(docs) == IF Len(docs) > 0 THEN docs[1].updatedAt ELSE 0

\* mutant: the expiry compared in seconds against a difference in milliseconds
CacheExpired_NoMs(docs, settings, opts, t) ==
    t - LastUpdated(docs) > CacheTime(settings, opts)

CacheExpired(docs, settings, opts, t) ==
    t - LastUpdated(docs) > CacheTime(settings, opts) * MsPerSecond

\* mutant: the age of the cache is not looked at
ServeFromCache_IgnoresExpiry(docs, settings, opts, t, forceRefresh) ==
    Len(docs) > 0 /\ ~forceRefresh

\* mutant: the refresh parameter is not looked at
ServeFromCache_IgnoresRefresh(docs, settings, opts, t, forceRefresh) ==
    Len(docs) > 0 /\ ~CacheExpired(docs, settings, opts, t)

\* docs.length > 0 && !cacheExpired && !forceRefresh
ServeFromCache(docs, settings, opts, t, forceRefresh) ==
    Len(docs) > 0 /\ ~CacheExpired(docs, settings, opts, t) /\ ~forceRefresh

\* positions of the jobs whose detail fetch gave a result (not null)
Fetched(oc) ==
    SelectSeq([i \in 1..Len(oc) |-> i], LAMBDA i : oc[i] \in {"ok", "create_throw"})

\* mutant: the first missing detail ends the loop (break for continue)
Stored_BreakOnNull(oc) ==
    SelectSeq([i \in 1..Len(oc) |-> i],
              LAMBDA i : \A k \in 1..i : oc[k] = "ok")

\* mutant: the first failing create ends the loop
Stored_StopAtCreateError(oc) ==
    SelectSeq([i \in 1..Len(oc) |-> i],
              LAMBDA i : oc[i] = "ok" /\ \A k \in 1..i : oc[k] # "create_throw")

\* positions of the jobs whose document was created
Stored(oc) == SelectSeq([i \in 1..Len(oc) |-> i], LAMBDA i : oc[i] = "ok")

\* processedJobs: the created documents, in the order of the upstream list
ProcessedJobs(jobs, oc, id0, t) ==
    LET st == Stored(oc)
    IN  [k \in 1..Len(st) |-> NewDoc(id0 + k - 1, jobs[st[k]], t)]

\* mutant: a detail fetch that failed is issued once more
SyncLog_RetryFailedDetail(docs, k, jobs, oc) ==
    <<Event("GET jobs", 0)>>
    \o [i \in 1..k |-> Event("delete", docs[i].id)]
    \o (IF k < Len(docs) THEN <<>>
        ELSE [i \in 1..Len(jobs) |-> Event("GET job", jobs[i])]
             \o [i \in 1..(Len(jobs) - Len(Fetched(oc))) |->
                    Event("GET job", jobs[CHOOSE n \in 1..Len(oc) :
                                            oc[n] \notin {"ok", "create_throw"}])]
             \o [i \in 1..Len(Fetched(oc)) |-> Event("create", jobs[Fetched(oc)[i]])])

SyncLog(docs, k, jobs, oc) ==
    <<Event("GET jobs", 0)>>
    \o [i \in 1..k |-> Event("delete", docs[i].id)]
    \o (IF k < Len(docs) THEN <<>>
        ELSE [i \in 1..Len(jobs) |-> Event("GET job", jobs[i])]
             \o [i \in 1..Len(Fetched(oc)) |-> Event("create", jobs[Fetched(oc)[i]])])

\* answers of GET /boards/{token}/jobs: a job list, a non-2xx status, or a
\* rejected fetch / unreadable body
ListAnswers ==
    [kind : {"ok"}, status : {200}, jobs : JobLists]
    \cup [kind : {"status"}, status : ErrorStatuses, jobs : {<<>>}]
    \cup [kind : {"throw"}, status : {0}, jobs : {<<>>}]

\* a delete that throws is the k-th of the loop: the first or the last one;
\* 0: none throws
DeleteFailPoints(docs) == {0} \cup ({1, Len(docs)} \ {0})

Return(q, r, l, c, n) ==
    /\ req' = q
    /\ resp' = r
    /\ log' = l
    /\ cache' = c
    /\ nextId' = n
    /\ busy' = TRUE
    /\ cacheBefore' = cache
    /\ UNCHANGED <<now, pluginOptions, offices, prevOp, syncs>>

\* mutant: the cache is cleared before response.ok is looked at
CacheOnListError_Cleared(c, docs) == DeleteAll(c, docs, Len(docs))

\* lines 92-99: the !response.ok return comes before the first delete
CacheOnListError(c, docs) == c

\* lines 89-178: fetch the list, clear the cache, fetch the details, store
SyncFromUpstream(q, docs, settings) ==
    \E list \in ListAnswers :
        LET q1 == [q EXCEPT !.list = list]
        IN  IF list.kind = "throw"
            THEN Return(q1, CaughtError,
                        <<Event("GET jobs", 0)>>, cache, nextId)
            ELSE IF list.kind = "status"
            THEN Return(q1, JsonResponse(list.status, "error", <<>>),
                        <<Event("GET jobs", 0)>>, CacheOnListError(cache, docs),
                        nextId)
            ELSE \E k \in DeleteFailPoints(docs) :
                IF k > 0
                THEN Return([q1 EXCEPT !.deleteFailAt = k],
                            CaughtError,
                            SyncLog(docs, k - 1, list.jobs, <<>>),
                            DeleteAll(cache, docs, k - 1), nextId)
                ELSE \E oc \in OutcomeMaps(Len(list.jobs)) :
                    LET processedJobs == ProcessedJobs(list.jobs, oc, nextId, now)
                    IN  /\ nextId + Len(processedJobs) - 1 <= MaxDocId
                        /\ Return([q1 EXCEPT !.outcome = oc],
                                  JsonResponse(200, "jobs", processedJobs),
                                  SyncLog(docs, Len(docs), list.jobs, oc),
                                  CreateAll(DeleteAll(cache, docs, Len(docs)),
                                            processedJobs),
                                  nextId + Len(processedJobs))

greenhouseJobsHandler ==
    /\ ~busy
    /\ \E refresh \in BOOLEAN :
        LET q0 == [IdleReq EXCEPT !.op = "jobs", !.refresh = refresh, !.at = now]
        IN  \/ Return([q0 EXCEPT !.storeFails = "settings"],
                      CaughtError, <<>>, cache, nextId)
            \/ \E settings \in JobsSettings :
                LET q == [q0 EXCEPT !.settings = settings]
                    docs == Find(cache)
                IN  IF ~settings.present \/ ~settings.urlToken
                    THEN Return(q, JsonResponse(400, "error", <<>>), <<>>,
                                cache, nextId)
                    ELSE \/ Return([q EXCEPT !.storeFails = "jobs"],
                                   CaughtError, <<>>,
                                   cache, nextId)
                         \/ IF ServeFromCache(docs, settings, pluginOptions, now,
                                              refresh)
                            THEN Return(q, JsonResponse(200, "jobs", docs), <<>>,
                                        cache, nextId)
                            ELSE SyncFromUpstream(q, docs, settings)

----------------------------------------------------------------------------
(* greenhouseClearCacheHandler, cached variant *)

greenhouseClearCacheHandler ==
    /\ ~busy
    /\ LET q == [IdleReq EXCEPT !.op = "clear-cache", !.at = now]
           docs == Find(cache)
       IN  \/ Return([q EXCEPT !.storeFails = "jobs"],
                     CaughtError, <<>>, cache, nextId)
           \/ \E k \in DeleteFailPoints(docs) :
                IF k > 0
                THEN Return([q EXCEPT !.deleteFailAt = k],
                            CaughtError,
                            [i \in 1..(k - 1) |-> Event("delete", docs[i].id)],
                            DeleteAll(cache, docs, k - 1), nextId)
                ELSE Return(q,
                            [JsonResponse(200, "cleared", <<>>)
                                EXCEPT !.jobsRemoved = Len(docs)],
                            [i \in 1..Len(docs) |-> Event("delete", docs[i].id)],
                            DeleteAll(cache, docs, Len(docs)), nextId)

----------------------------------------------------------------------------
(* greenhouseApplyHandler *)

\* the request body: unreadable (req.json() rejects), or an object in which
\* jobId and formData are each present (truthy) or missing
Bodies ==
    {[parsed |-> FALSE, jobId |-> FALSE, formData |-> FALSE]}
    \cup [parsed : {TRUE}, jobId : BOOLEAN, formData : BOOLEAN]

\* 2xx statuses of the write API and the JSON bodies it answers with
OkStatuses == {200, 201}
ResponseBodies == {<<>>, <<1>>}

\* answers of POST /v1/applications: 2xx with a JSON body, 2xx with an
\* unreadable body, a non-2xx status with or without a JSON body, or a
\* rejected fetch
SubmitAnswers ==
    [kind : {"ok"}, status : OkStatuses, jobs : ResponseBodies]
    \cup [kind : {"badjson"}, status : {200}, jobs : {<<>>}]
    \cup [kind : {"status", "status_nojson"}, status : ErrorStatuses,
          jobs : {<<>>}]
    \cup [kind : {"throw"}, status : {0}, jobs : {<<>>}]

\* mutant: only the job identifier is validated
MissingFields_OnlyJobId(body) == ~body.jobId

\* !jobId || !formData
MissingFields(body) == ~body.jobId \/ ~body.formData

\* mutant: every upstream failure is reported as a server error
ApplyErrorStatus_Always500(answer) == 500

\* status: response.status of the !response.ok branch
ApplyErrorStatus(answer) == answer.status

\* lines 220-269: read the body, validate it, forward it, proxy the answer
SubmitApplication(q, body) ==
    LET qb == [q EXCEPT !.body = body]
        post == <<Event("POST applications", 0)>>
    IN  IF ~body.parsed
        THEN Return(qb, CaughtError, <<>>, cache, nextId)
        ELSE IF MissingFields(body)
        THEN Return(qb, JsonResponse(400, "error", <<>>), <<>>, cache, nextId)
        ELSE \E answer \in SubmitAnswers :
            LET qa == [qb EXCEPT !.list = answer]
            IN  IF answer.kind \in {"status", "status_nojson"}
                THEN Return(qa, JsonResponse(ApplyErrorStatus(answer), "error",
                                             <<>>),
                            post, cache, nextId)
                ELSE IF answer.kind = "ok"
                THEN Return(qa, JsonResponse(200, "application", answer.jobs),
                            post, cache, nextId)
                ELSE Return(qa, CaughtError, post, cache, nextId)

greenhouseApplyHandler ==
    /\ ~busy
    /\ LET q0 == [IdleReq EXCEPT !.op = "apply", !.at = now]
       IN  \/ Return([q0 EXCEPT !.storeFails = "settings"], CaughtError, <<>>,
                     cache, nextId)
           \/ \E settings \in ApplySettings :
                LET q == [q0 EXCEPT !.settings = settings]
                IN  IF ~settings.present \/ ~settings.apiKey
                    THEN Return(q, JsonResponse(400, "error", <<>>), <<>>,
                                cache, nextId)
                    ELSE \E body \in Bodies : SubmitApplication(q, body)

----------------------------------------------------------------------------
(* The office tree and its flattening *)

MaxEntries == 3       \* job entries of an office tree

\* how an entry of the tree continues it: in the same department, in a new
\* department, in a new office, or in a new one after an empty one
Breaks == {"job", "dept", "office", "dept_after_empty", "office_after_empty"}

\* the tree as a sequence (offices) of sequences (departments) of sequences of
\* job identifiers; an office is named by its position, a department by its
\* position in the office
AddEntry(tree, e) ==
    LET n == Len(tree)
        last == tree[n]
        m == Len(last)
    IN  CASE e.brk = "office" -> Append(tree, <<(<<e.job>>)>>)
          [] e.brk = "office_after_empty" ->
                Append(Append(tree, <<>>), <<(<<e.job>>)>>)
          [] e.brk = "dept" -> [tree EXCEPT ![n] = Append(last, <<e.job>>)]
          [] e.brk = "dept_after_empty" ->
                [tree EXCEPT ![n] = Append(Append(last, <<>>), <<e.job>>)]
          [] e.brk = "job" ->
                [tree EXCEPT ![n] = [last EXCEPT ![m] = Append(last[m], e.job)]]

RECURSIVE Build(_)
Build(es) ==
    IF es = <<>> THEN <<>> ELSE AddEntry(Build(SubSeq(es, 1, Len(es) - 1)), es[Len(es)])

EntryLists ==
    UNION {{es \in [1..n -> [brk : Breaks, job : 1..MaxEntries]] :
                /\ \A i \in 1..n : es[i].job \in {1, i}
                /\ n > 0 => es[1].brk \in {"office", "office_after_empty"}} :
           n \in 0..MaxEntries}

Trees == {Build(es) : es \in EntryLists}

Entry(o, d, job) == [office |-> o, department |-> d, job |-> job]

NoJobs == [seen |-> {}, allJobs |-> <<>>]

\* mutant: the seen set is not consulted
JobStep_NoSeen(st, o, d, job) ==
    [seen |-> st.seen \cup {job}, allJobs |-> Append(st.allJobs, Entry(o, d, job))]

\* mutant: a later occurrence replaces the entry of an earlier one
JobStep_LastWins(st, o, d, job) ==
    IF job \in st.seen
    THEN [st EXCEPT !.allJobs =
            [i \in 1..Len(st.allJobs) |->
                IF st.allJobs[i].job = job THEN Entry(o, d, job)
                ELSE st.allJobs[i]]]
    ELSE [seen |-> st.seen \cup {job},
          allJobs |-> Append(st.allJobs, Entry(o, d, job))]

\* if (!seenJobIds.has(job.id)) { seenJobIds.add(job.id); allJobs.push(...) }
JobStep(st, o, d, job) ==
    IF job \in st.seen THEN st
    ELSE [seen |-> st.seen \cup {job},
          allJobs |-> Append(st.allJobs, Entry(o, d, job))]

\* for (const job of department.jobs), from the j-th job on
RECURSIVE JobsLoop(_, _, _, _, _)
JobsLoop(st, tree, o, d, j) ==
    IF j > Len(tree[o][d]) THEN st
    ELSE JobsLoop(JobStep(st, o, d, tree[o][d][j]), tree, o, d, j + 1)

\* for (const department of office.departments), from the d-th on
RECURSIVE DepartmentsLoop(_, _, _, _)
DepartmentsLoop(st, tree, o, d) ==
    IF d > Len(tree[o]) THEN st
    ELSE DepartmentsLoop(
            IF Len(tree[o][d]) > 0 THEN JobsLoop(st, tree, o, d, 1) ELSE st,
            tree, o, d + 1)

\* for (const office of offices), from the o-th on
RECURSIVE OfficesLoop(_, _, _)
OfficesLoop(st, tree, o) ==
    IF o > Len(tree) THEN st
    ELSE OfficesLoop(
            IF Len(tree[o]) > 0 THEN DepartmentsLoop(st, tree, o, 1) ELSE st,
            tree, o + 1)

\* allJobs of the jobs handler
Flatten(tree) == OfficesLoop(NoJobs, tree, 1).allJobs

----------------------------------------------------------------------------
(* greenhouseJobsHandler, environment-configured variant: no cache, the     *)
(* office tree as the source, job details fetched one after the other       *)

OfficesAnswers ==
    [kind : {"ok"}, status : {200}, jobs : {<<>>}]
    \cup [kind : {"status"}, status : ErrorStatuses, jobs : {<<>>}]
    \cup [kind : {"throw"}, status : {0}, jobs : {<<>>}]

\* the answers to the detail fetches: the fetch of a job answers 2xx, answers
\* non-2xx or is rejected; nothing is fetched after a rejected fetch
DetailAnswers(n) ==
    {oc \in [1..n -> {"ok", "detail_status", "detail_throw"}] :
        \A i \in 1..n : \A k \in 1..(i - 1) : oc[k] = "detail_throw" => oc[i] = "ok"}

\* the jobs whose detail was requested: all up to the first rejected fetch
Requested(oc) ==
    IF \E i \in 1..Len(oc) : oc[i] = "detail_throw"
    THEN CHOOSE i \in 1..Len(oc) :
            oc[i] = "detail_throw" /\ \A k \in 1..(i - 1) : oc[k] # "detail_throw"
    ELSE Len(oc)

\* processedJobs.push({...}) of one flattened job
ProcessedJob(e, answer) ==
    [id |-> e.job, jobId |-> e.job, office |-> e.office,
     department |-> e.department, questions |-> answer = "ok"]

\* mutant: the token is not checked
TokenMissing_Never(opts) == FALSE

\* !urlToken, urlToken being pluginOptions.urlToken ||
\* process.env.GREENHOUSE_URL_TOKEN
TokenMissing(opts) == ~opts.urlToken

\* mutant: a rejected detail fetch is swallowed, the job kept without questions
DetailThrowAborts_Never(oc) == FALSE

\* lines 147-156 are in no try of their own: a rejected detail fetch reaches
\* the catch block of the handler
DetailThrowAborts(oc) == \E i \in 1..Len(oc) : oc[i] = "detail_throw"

\* the response of the handler, given the answer of the offices fetch and of
\* the detail fetches
JobsResponseEnv(opts, tree, answer, oc) ==
    IF TokenMissing(opts) THEN JsonResponse(400, "error", <<>>)
    ELSE IF answer.kind = "throw" THEN CaughtError
    ELSE IF answer.kind = "status"
    THEN JsonResponse(answer.status, "error", <<>>)
    ELSE IF DetailThrowAborts(oc) THEN CaughtError
    ELSE JsonResponse(200, "jobs",
                      [i \in 1..Len(Flatten(tree)) |->
                            ProcessedJob(Flatten(tree)[i], oc[i])])

\* the upstream requests of the handler, in order
JobsLogEnv(opts, tree, answer, oc) ==
    IF TokenMissing(opts) THEN <<>>
    ELSE <<Event("GET offices", 0)>>
         \o (IF answer.kind # "ok" THEN <<>>
             ELSE [i \in 1..Requested(oc) |->
                        Event("GET job", Flatten(tree)[i].job)])

greenhouseJobsHandlerEnv ==
    /\ ~busy
    /\ \E refresh \in BOOLEAN :
        LET q == [IdleReq EXCEPT !.op = "jobs-env", !.refresh = refresh,
                                 !.at = now]
        IN  IF TokenMissing(pluginOptions)
            THEN Return(q, JobsResponseEnv(pluginOptions, offices, NoList, <<>>),
                        JobsLogEnv(pluginOptions, offices, NoList, <<>>),
                        cache, nextId)
            ELSE \E answer \in OfficesAnswers :
                LET q1 == [q EXCEPT !.list = answer]
                IN  IF answer.kind # "ok"
                    THEN Return(q1, JobsResponseEnv(pluginOptions, offices,
                                                    answer, <<>>),
                                JobsLogEnv(pluginOptions, offices, answer, <<>>),
                                cache, nextId)
                    ELSE \E oc \in DetailAnswers(Len(Flatten(offices))) :
                            Return([q1 EXCEPT !.outcome = oc],
                                   JobsResponseEnv(pluginOptions, offices,
                                                   answer, oc),
                                   JobsLogEnv(pluginOptions, offices, answer, oc),
                                   cache, nextId)

----------------------------------------------------------------------------
(* greenhouseApplyHandler and greenhouseClearCacheHandler, environment-      *)
(* configured variant                                                        *)

\* mutant: the body is read and validated before the key is looked at
KeyMissing_AfterBody(opts, body) == ~opts.apiKey /\ body.parsed /\ ~MissingFields(body)

\* !settings || !settings.apiKey, settings.apiKey being
\* pluginOptions.apiKey || process.env.GREENHOUSE_API_KEY
KeyMissing(opts, body) == ~opts.apiKey

greenhouseApplyHandlerEnv ==
    /\ ~busy
    /\ \E body \in Bodies :
        LET q == [IdleReq EXCEPT !.op = "apply-env", !.at = now]
        IN  IF KeyMissing(pluginOptions, body)
            THEN Return([q EXCEPT !.body = body],
                        JsonResponse(400, "error", <<>>), <<>>, cache, nextId)
            ELSE SubmitApplication(q, body)

\* lines 291-306: nothing is cached, nothing is removed
greenhouseClearCacheHandlerEnv ==
    /\ ~busy
    /\ Return([IdleReq EXCEPT !.op = "clear-cache-env", !.at = now],
              JsonResponse(200, "cleared", <<>>), <<>>, cache, nextId)

----------------------------------------------------------------------------
(* fetchAvailableJobs: the job options offered for the jobId field *)

\* label: `${job.title} (ID: ${job.id}) - ${department.name}, ${office.name}`;
\* the jobs of the model are titled by their number
Option(o, d, job) == [label |-> <<job, job, d, o>>, value |-> job]

\* a.label.localeCompare(b.label) < 0, part by part
LabelBefore(a, b) ==
    \E i \in 1..4 : a[i] < b[i] /\ \A k \in 1..(i - 1) : a[k] = b[k]

RECURSIVE Insert(_, _)
Insert(sorted, x) ==
    IF sorted = <<>> THEN <<x>>
    ELSE IF LabelBefore(x.label, Head(sorted).label) THEN <<x>> \o sorted
    ELSE <<Head(sorted)>> \o Insert(Tail(sorted), x)

RECURSIVE SortByLabel(_)
SortByLabel(options) ==
    IF options = <<>> THEN <<>>
    ELSE Insert(SortByLabel(SubSeq(options, 1, Len(options) - 1)),
                options[Len(options)])

\* lines 65-84: the same walk with its own seen set
OptionStep(st, o, d, job) ==
    IF job \in st.seen THEN st
    ELSE [seen |-> st.seen \cup {job},
          allJobs |-> Append(st.allJobs, Option(o, d, job))]

RECURSIVE OptionsWalk(_, _, _, _, _)
OptionsWalk(st, tree, o, d, j) ==
    IF o > Len(tree) THEN st
    ELSE IF d > Len(tree[o]) THEN OptionsWalk(st, tree, o + 1, 1, 1)
    ELSE IF j > Len(tree[o][d]) THEN OptionsWalk(st, tree, o, d + 1, 1)
    ELSE OptionsWalk(OptionStep(st, o, d, tree[o][d][j]), tree, o, d, j + 1)

JobOptions(tree) == SortByLabel(OptionsWalk(NoJobs, tree, 1, 1, 1).allJobs)

fetchAvailableJobs ==
    /\ ~busy
    /\ pluginOptions.urlToken
    /\ \E answer \in OfficesAnswers :
        LET q == [IdleReq EXCEPT !.op = "options", !.list = answer, !.at = now]
            get == <<Event("GET offices", 0)>>
        IN  IF answer.kind = "ok"
            THEN Return(q, JsonResponse(0, "options", JobOptions(offices)), get,
                        cache, nextId)
            ELSE Return(q, JsonResponse(0, "options", <<>>), get, cache, nextId)

----------------------------------------------------------------------------
(* The debug endpoint (GET /greenhouse/debug) *)

\* availableJobIds.push(job.id); jobDetails.push({id, department, office, title})
DebugStep(all, o, d, job) == Append(all, Entry(o, d, job))

\* lines 549-565: the three nested loops, from office o, department d, job j on
RECURSIVE DebugWalk(_, _, _, _, _)
DebugWalk(all, tree, o, d, j) ==
    IF o > Len(tree) THEN all
    ELSE IF d > Len(tree[o]) THEN DebugWalk(all, tree, o + 1, 1, 1)
    ELSE IF j > Len(tree[o][d]) THEN DebugWalk(all, tree, o, d + 1, 1)
    ELSE DebugWalk(DebugStep(all, o, d, tree[o][d][j]), tree, o, d, j + 1)

\* sort((a, b) => a.id - b.id): ascending by identifier, equal ones keeping
\* their order
RECURSIVE InsertById(_, _)
InsertById(sorted, x) ==
    IF sorted = <<>> THEN <<x>>
    ELSE IF x.job < Head(sorted).job THEN <<x>> \o sorted
    ELSE <<Head(sorted)>> \o InsertById(Tail(sorted), x)

RECURSIVE SortById(_)
SortById(all) ==
    IF all = <<>> THEN <<>>
    ELSE InsertById(SortById(SubSeq(all, 1, Len(all) - 1)), all[Len(all)])

\* jobDetails of the response; availableJobIds are its identifiers
JobDetails(tree) == SortById(DebugWalk(<<>>, tree, 1, 1, 1))

\* mutant: an upstream error is reported with status 200
DebugErrorStatus_Ok(answer) == 200

\* status: officesResponse.status
DebugErrorStatus(answer) == answer.status

debugHandler ==
    /\ ~busy
    /\ LET q == [IdleReq EXCEPT !.op = "debug", !.at = now]
           get == <<Event("GET offices", 0)>>
       IN  IF TokenMissing(pluginOptions)
           THEN Return(q, JsonResponse(400, "error", <<>>), <<>>, cache, nextId)
           ELSE \E answer \in OfficesAnswers :
                LET q1 == [q EXCEPT !.list = answer]
                IN  IF answer.kind = "throw"
                    THEN Return(q1, CaughtError, get,
                                cache, nextId)
                    ELSE IF answer.kind = "status"
                    THEN Return(q1, JsonResponse(DebugErrorStatus(answer),
                                                 "error", <<>>),
                                get, cache, nextId)
                    ELSE Return(q1,
                                [JsonResponse(200, "debug", JobDetails(offices))
                                    EXCEPT !.totalJobs = Len(JobDetails(offices))],
                                get, cache, nextId)

----------------------------------------------------------------------------
(* The beforeChange hook of the greenhouse-jobs collection *)

\* data.jobId of a write: none, a text that is no positive number, the text
\* of a job number, or a job number
HookJobIds ==
    {NoJobId, [isString |-> TRUE, n |-> 0 - 1], [isString |-> FALSE, n |-> 1]}
    \cup [isString : {TRUE}, n : {1, 2}]

\* the data of a write; the title is the one typed into the form, or none
HookData == [jobId : HookJobIds, title : {"", "form"}, department : {0},
             office : {0}, updatedAt : {0}]

\* the document as stored before an update: a numeric jobId and either every
\* other field set or none
OriginalDocs ==
    [jobId : [isString : {FALSE}, n : {1, 2}], title : {"original"},
     department : {1}, office : {2}, updatedAt : {0}]
    \cup [jobId : [isString : {FALSE}, n : {1, 2}], title : {""},
          department : {0}, office : {0}, updatedAt : {0}]

\* typeof data.jobId === 'string' ? parseInt(data.jobId, 10) : data.jobId
ParseJobId(j) == [isString |-> FALSE, n |-> j.n]

\* answers of GET /jobs/{id}: 2xx with or without a title, a non-2xx status,
\* or a rejected fetch
HookJobAnswers ==
    [kind : {"ok"}, status : {200}, title : {"", "details"}]
    \cup [kind : {"status"}, status : ErrorStatuses, title : {""}]
    \cup [kind : {"throw"}, status : {0}, title : {""}]

\* answers of GET /offices to the hook
HookOfficesAnswers ==
    [kind : {"ok"}, status : {200}, jobs : {<<>>}]
    \cup [kind : {"status"}, status : {500}, jobs : {<<>>}]
    \cup [kind : {"throw"}, status : {0}, jobs : {<<>>}]

NoContext == [found |-> FALSE, office |-> 0, department |-> 0]

\* department.jobs.find(j => j.id === jobId) over the departments of office o
RECURSIVE FindInDepartments(_, _, _, _)
FindInDepartments(tree, o, d, job) ==
    IF d > Len(tree[o]) THEN 0
    ELSE IF job \in Range(tree[o][d]) THEN d
    ELSE FindInDepartments(tree, o, d + 1, job)

\* lines 319-335: foundJobContext
RECURSIVE FindJobContext(_, _, _)
FindJobContext(tree, o, job) ==
    IF o > Len(tree) THEN NoContext
    ELSE LET d == FindInDepartments(tree, o, 1, job)
         IN  IF d > 0 THEN [found |-> TRUE, office |-> o, department |-> d]
             ELSE FindJobContext(tree, o + 1, job)

\* a || b || c on titles; the jobs of the tree bear the title "tree"
FirstTitle(a, b, c) == IF a # "" THEN a ELSE IF b # "" THEN b ELSE c

\* lines 337-371: populate the fields with the upstream data
Populate(data, jobId, jobDetails, ctx) ==
    [data EXCEPT
        !.title = FirstTitle(jobDetails.title,
                             IF ctx.found THEN "tree" ELSE "", data.title),
        !.department = IF ctx.found THEN ctx.department ELSE data.department,
        !.office = IF ctx.found THEN ctx.office ELSE data.office,
        !.jobId = jobId]

\* mutant: the jobId of the write is kept
PreserveOriginal_KeepsJobId(data, originalDoc) ==
    [jobId |-> data.jobId,
     title |-> IF originalDoc.title # "" THEN originalDoc.title ELSE data.title,
     department |-> IF originalDoc.department # 0 THEN originalDoc.department
                    ELSE data.department,
     office |-> IF originalDoc.office # 0 THEN originalDoc.office
                ELSE data.office,
     updatedAt |-> data.updatedAt]

\* lines 394-401: every field the original document defines is taken from it
PreserveOriginal(data, originalDoc) ==
    [jobId |-> IF originalDoc.jobId # NoJobId THEN originalDoc.jobId
               ELSE data.jobId,
     title |-> IF originalDoc.title # "" THEN originalDoc.title ELSE data.title,
     department |-> IF originalDoc.department # 0 THEN originalDoc.department
                    ELSE data.department,
     office |-> IF originalDoc.office # 0 THEN originalDoc.office
                ELSE data.office,
     updatedAt |-> data.updatedAt]

\* the hook throws: the write is rejected with this error
Throw(q, error, status, l) ==
    Return(q, [JsonResponse(status, "throw", <<>>) EXCEPT !.error = error], l,
           cache, nextId)

\* lines 393-406: preserve on update, stamp updatedAt, return data
Finish(q, data, l) ==
    LET kept == IF q.operation = "update"
                THEN PreserveOriginal(data, q.originalDoc) ELSE data
    IN  Return(q, JsonResponse(0, "data", <<[kept EXCEPT !.updatedAt = now]>>),
               l, cache, nextId)

\* mutant: an unauthorized answer is reported as a missing job
RejectionOf_AllNotFound(status) ==
    IF status \in {404, 401} THEN "not_found" ELSE "api_error"

\* lines 379-389: the error thrown for a non-2xx answer of the job fetch
RejectionOf(status) ==
    IF status = 404 THEN "not_found"
    ELSE IF status = 401 THEN "unauthorized"
    ELSE "api_error"

\* data.jobId && (operation === 'create' ||
\*                (originalDoc && data.jobId !== originalDoc.jobId))
MustValidate(operation, data, originalDoc) ==
    /\ data.jobId # NoJobId
    /\ (operation = "create" \/ data.jobId # originalDoc.jobId)

beforeChange ==
    /\ ~busy
    /\ \E operation \in {"create", "update"}, data \in HookData :
       \E originalDoc \in IF operation = "create" THEN {NoData}
                           ELSE OriginalDocs :
        LET q == [IdleReq EXCEPT !.op = "beforeChange", !.at = now,
                                 !.operation = operation, !.data = data,
                                 !.originalDoc = originalDoc]
            jobId == ParseJobId(data.jobId)
            getJob == <<Event("GET job", jobId.n)>>
            getBoth == getJob \o <<Event("GET offices", 0)>>
        IN  IF ~MustValidate(operation, data, originalDoc)
            THEN Finish(q, data, <<>>)
            ELSE IF TokenMissing(pluginOptions)
            THEN Throw(q, "token", 0, <<>>)
            ELSE IF jobId.n <= 0
            THEN Throw(q, "invalid", 0, <<>>)
            ELSE \E jobResponse \in HookJobAnswers :
                LET q1 == [q EXCEPT !.detail = jobResponse]
                IN  IF jobResponse.kind = "throw"
                    THEN Throw(q1, "network", 0, getJob)
                    ELSE IF jobResponse.kind = "status"
                    THEN Throw(q1, RejectionOf(jobResponse.status),
                               jobResponse.status, getJob)
                    ELSE \E officesResponse \in HookOfficesAnswers :
                        LET q2 == [q1 EXCEPT !.list = officesResponse]
                        IN  IF officesResponse.kind = "throw"
                            THEN Throw(q2, "network", 0, getBoth)
                            ELSE IF officesResponse.kind = "status"
                            THEN Finish(q2, data, getBoth)
                            ELSE Finish(q2,
                                        Populate(data, jobId, jobResponse,
                                                 FindJobContext(offices, 1,
                                                                jobId.n)),
                                        getBoth)

----------------------------------------------------------------------------
(* payloadGreenhouse: the plugin function applied to the host configuration *)

Collection(slug, fields) == [slug |-> slug, fields |-> fields]

\* the host's collections before the plugin: undefined, or some of 'pages'
\* and 'posts', each with one field of its own
HostCollections ==
    {Undefined, Defined(<<>>), Defined(<<Collection("pages", <<"title">>)>>),
     Defined(<<Collection("pages", <<"title">>),
               Collection("posts", <<"title">>)>>)}

HostConfigs ==
    [collections : HostCollections,
     endpoints : {Undefined, Defined(<<>>), Defined(<<"/host">>)},
     admin : 0..3,
     onInit : {"undefined", "incoming"}]

\* pluginOptions.collections names no collection, a host collection, one the
\* host does not have, or the plugin's own
PluginConfigs ==
    [disabled : BOOLEAN,
     collections : {<<>>, <<"pages">>, <<"pages", "missing">>,
                    <<"greenhouse-jobs">>}]

\* lines 98-410: config.collections.push({slug: 'greenhouse-jobs', ...})
AddJobsCollection(collections) ==
    Defined(Append(collections.list,
                   Collection("greenhouse-jobs", <<"jobId", "title">>)))

\* lines 414-451: the first collection of that slug gets the field group
AddFieldGroup(list, slug) ==
    IF \E i \in 1..Len(list) : list[i].slug = slug
    THEN LET first == CHOOSE i \in 1..Len(list) :
                        /\ list[i].slug = slug
                        /\ \A k \in 1..(i - 1) : list[k].slug # slug
         IN  [list EXCEPT ![first].fields = Append(@, "greenhouseJobBoard")]
    ELSE list

\* for (const collectionSlug in pluginOptions.collections)
RECURSIVE AddFieldGroups(_, _)
AddFieldGroups(list, slugs) ==
    IF slugs = <<>> THEN list
    ELSE AddFieldGroups(AddFieldGroup(list, Head(slugs)), Tail(slugs))

\* lines 462-597: the four endpoints, in the order they are pushed
PluginEndpoints ==
    <<"/greenhouse/jobs", "/greenhouse/apply", "/greenhouse/clear-cache",
      "/greenhouse/debug">>

\* mutant: the disabled option is not looked at
Disabled_Ignored(opts) == FALSE

\* if (pluginOptions.disabled) return config
Disabled(opts) == opts.disabled

PayloadGreenhouse(opts, config) ==
    LET withSchema ==
            [config EXCEPT !.collections =
                Defined(AddFieldGroups(AddJobsCollection(config.collections).list,
                                       opts.collections))]
    IN  IF Disabled(opts) THEN withSchema
        ELSE [withSchema EXCEPT
                !.endpoints = Defined(config.endpoints.list \o PluginEndpoints),
                !.admin = 3,
                !.onInit = IF config.onInit = "incoming"
                           THEN "incoming, then plugin" ELSE "plugin"]

payloadGreenhouse ==
    /\ ~busy
    /\ \E opts \in PluginConfigs, config \in HostConfigs :
        Return([IdleReq EXCEPT !.op = "plugin", !.at = now, !.options = opts,
                               !.config = config],
               JsonResponse(0, "config", <<PayloadGreenhouse(opts, config)>>),
               <<>>, cache, nextId)

----------------------------------------------------------------------------
(* The dashboard: BeforeDashboardServer renders the widget from the jobs    *)
(* handler called in process; the widget's refresh button calls the         *)
(* endpoints over HTTP                                                      *)

\* String(job.id || job.jobId): the text of a number
String(n) == [isString |-> TRUE, n |-> n]

\* a || b on numbers
Or(a, b) == IF a # 0 THEN a ELSE b

\* lines 53-64: one job of the widget from one job of the handler's body
WidgetJob(job) ==
    [id |-> String(Or(job.id, job.jobId)), jobId |-> Or(job.jobId, job.id),
     department |-> job.department, office |-> job.office]

\* mutant: a body that is no list is taken as one job
WidgetJobs_ObjectAsJob(response) ==
    IF response.kind = "jobs"
    THEN [i \in 1..Len(response.body) |-> WidgetJob(response.body[i])]
    ELSE <<WidgetJob([id |-> 0, jobId |-> 0, department |-> 0, office |-> 0])>>

\* lines 47-67: (jobsData || []).map(...) inside the inner try; an error
\* object has no map, the TypeError is caught and jobs = []
WidgetJobs(response) ==
    IF response.kind = "jobs"
    THEN [i \in 1..Len(response.body) |-> WidgetJob(response.body[i])]
    ELSE <<>>

\* <BeforeDashboardClient jobs={jobs} settings={settings} />
Widget(jobs, settings) ==
    [JsonResponse(0, "widget", jobs) EXCEPT !.settings = settings]

\* the module behind '../utils/greenhouseApi.js': the cached handler or the
\* environment-configured one
Variants == {"cached", "env"}

\* the component calls the handler with { query: {} }: the cached handler
\* reads req.payload.find of an undefined payload and answers from its catch
\* block; the environment-configured handler runs as for any request
BeforeDashboardServer ==
    /\ ~busy
    /\ \E configured \in BOOLEAN, variant \in Variants :
        LET q == [IdleReq EXCEPT !.op = "BeforeDashboardServer", !.at = now,
                                 !.configured = configured]
            qv == [q EXCEPT !.variant = variant]
        IN  IF ~configured
            THEN Return(q, Widget(<<>>, FALSE), <<>>, cache, nextId)
            ELSE IF variant = "cached"
            THEN Return([qv EXCEPT !.detail = CaughtError],
                        Widget(WidgetJobs(CaughtError), TRUE), <<>>,
                        cache, nextId)
            ELSE \E answer \in IF TokenMissing(pluginOptions) THEN {NoList}
                                ELSE OfficesAnswers :
                 \E oc \in IF answer.kind = "ok"
                            THEN DetailAnswers(Len(Flatten(offices)))
                            ELSE {<<>>} :
                    LET response == JobsResponseEnv(pluginOptions, offices,
                                                    answer, oc)
                    IN  Return([qv EXCEPT !.list = answer, !.outcome = oc,
                                          !.detail = response],
                               Widget(WidgetJobs(response), TRUE),
                               JobsLogEnv(pluginOptions, offices, answer, oc),
                               cache, nextId)

\* what a fetch of the widget comes back with: a 2xx response, another
\* response, or a rejection
ClientAnswers ==
    [kind : {"ok"}, status : {200}, jobs : {<<>>}]
    \cup [kind : {"status"}, status : ErrorStatuses \cup {400}, jobs : {<<>>}]
    \cup [kind : {"throw"}, status : {0}, jobs : {<<>>}]

\* mutant: the sync is requested whatever clear-cache answered
SyncCalled_Always(clearResponse) == TRUE

\* lines 50-54: a rejected fetch or !clearResponse.ok throws before the
\* second fetch
SyncCalled(clearResponse) == clearResponse.kind = "ok"

\* BeforeDashboardClient.tsx 46-68
refreshJobs ==
    /\ ~busy
    /\ \E clearResponse \in ClientAnswers :
       \E syncResponse \in IF SyncCalled(clearResponse) THEN ClientAnswers
                            ELSE {NoList} :
        LET q == [IdleReq EXCEPT !.op = "refreshJobs", !.at = now,
                                 !.list = clearResponse,
                                 !.detail = syncResponse]
            reload == clearResponse.kind = "ok" /\ syncResponse.kind = "ok"
        IN  Return(q,
                   [JsonResponse(0, IF reload THEN "reloaded" ELSE "stayed",
                                 <<>>) EXCEPT !.loading = reload],
                   <<Event("POST clear-cache", 0)>>
                   \o (IF SyncCalled(clearResponse)
                       THEN <<Event("GET jobs?refresh=true", 0)>> ELSE <<>>)
                   \o (IF reload THEN <<Event("reload", 0)>> ELSE <<>>),
                   cache, nextId)

----------------------------------------------------------------------------
(* greenhouseJobsHandler of the cached variant, await by await: between two  *)
(* awaits of one invocation another invocation may run.  The settings hold  *)
(* a token, the upstream API answers every request and the store works.     *)

Procs == {1, 2}

IdleSync == [pc |-> "idle", refresh |-> FALSE, docs |-> <<>>, jobs |-> <<>>,
             k |-> 0, status |-> 0]

IdleSyncs == [p \in Procs |-> IdleSync]

TokenSettings == [present |-> TRUE, urlToken |-> TRUE, apiKey |-> FALSE,
                  cacheExpiryTime |-> 0]

\* lines 47-88: the two finds and the decision to serve the cache
syncFind(p) ==
    /\ syncs[p].pc = "idle"
    /\ \E refresh \in BOOLEAN :
        LET docs == Find(cache)
            sync == [IdleSync EXCEPT !.refresh = refresh, !.docs = docs]
        IN  syncs' = [syncs EXCEPT ![p] =
                IF ServeFromCache(docs, TokenSettings, pluginOptions, now, refresh)
                THEN [sync EXCEPT !.pc = "done", !.status = 200]
                ELSE [sync EXCEPT !.pc = "list"]]
    /\ UNCHANGED <<cache, nextId, now, pluginOptions, offices, busy, req, resp,
                   log, cacheBefore, prevOp>>

\* lines 89-101: the list arrives
syncList(p) ==
    /\ syncs[p].pc = "list"
    /\ \E jobs \in JobLists :
        syncs' = [syncs EXCEPT ![p].pc = "delete", ![p].jobs = jobs, ![p].k = 1]
    /\ UNCHANGED <<cache, nextId, now, pluginOptions, offices, busy, req, resp,
                   log, cacheBefore, prevOp>>

\* lines 104-110, one await payload.delete({id}): the store deletes the
\* document, or throws NotFound when no document has that id any more, which
\* the loop does not catch (lines 179-191: status 500)
syncDelete(p) ==
    /\ syncs[p].pc = "delete"
    /\ syncs[p].k <= Len(syncs[p].docs)
    /\ LET id == syncs[p].docs[syncs[p].k].id
       IN  IF \E i \in 1..Len(cache) : cache[i].id = id
           THEN /\ cache' = SelectSeq(cache, LAMBDA d : d.id # id)
                /\ syncs' = [syncs EXCEPT ![p].k = @ + 1]
           ELSE /\ cache' = cache
                /\ syncs' = [syncs EXCEPT ![p].pc = "done", ![p].status = 500]
    /\ UNCHANGED <<nextId, now, pluginOptions, offices, busy, req, resp, log,
                   cacheBefore, prevOp>>

\* lines 113-141: the deletes are done, Promise.all of the detail fetches
syncDetails(p) ==
    /\ syncs[p].pc = "delete"
    /\ syncs[p].k > Len(syncs[p].docs)
    /\ syncs' = [syncs EXCEPT ![p].pc = "create", ![p].k = 1]
    /\ UNCHANGED <<cache, nextId, now, pluginOptions, offices, busy, req, resp,
                   log, cacheBefore, prevOp>>

\* lines 144-172, one await payload.create
syncCreate(p) ==
    /\ syncs[p].pc = "create"
    /\ syncs[p].k <= Len(syncs[p].jobs)
    /\ nextId <= MaxDocId
    /\ cache' = Create(cache, NewDoc(nextId, syncs[p].jobs[syncs[p].k], now))
    /\ nextId' = nextId + 1
    /\ syncs' = [syncs EXCEPT ![p].k = @ + 1]
    /\ UNCHANGED <<now, pluginOptions, offices, busy, req, resp, log,
                   cacheBefore, prevOp>>

\* lines 175-178: the 200 response
syncReturn(p) ==
    /\ syncs[p].pc = "create"
    /\ syncs[p].k > Len(syncs[p].jobs)
    /\ syncs' = [syncs EXCEPT ![p].pc = "done", ![p].status = 200]
    /\ UNCHANGED <<cache, nextId, now, pluginOptions, offices, busy, req, resp,
                   log, cacheBefore, prevOp>>

\* the response reaches the client
syncDeliver(p) ==
    /\ syncs[p].pc = "done"
    /\ syncs' = [syncs EXCEPT ![p] = IdleSync]
    /\ UNCHANGED <<cache, nextId, now, pluginOptions, offices, busy, req, resp,
                   log, cacheBefore, prevOp>>

----------------------------------------------------------------------------
(* Environment *)

\* the response reaches the client; the server is idle again
Deliver ==
    /\ busy
    /\ busy' = FALSE
    /\ prevOp' = IF req.op = "clear-cache" /\ resp.status = 200
                 THEN "cleared" ELSE "other"
    /\ req' = IdleReq
    /\ resp' = IdleResp
    /\ log' = <<>>
    /\ cacheBefore' = <<>>
    /\ UNCHANGED <<cache, nextId, now, pluginOptions, offices, syncs>>

LongWait == DefaultCacheTime * MsPerSecond

\* a second passes
Tick ==
    /\ ~busy
    /\ now % LongWait < MaxTicks * MsPerSecond
    /\ now' = now + MsPerSecond
    /\ UNCHANGED <<cache, nextId, pluginOptions, offices, busy, req, resp, log,
                   cacheBefore, prevOp, syncs>>

\* the default expiry time passes
Wait ==
    /\ ~busy
    /\ now < LongWait
    /\ now' = now + LongWait
    /\ UNCHANGED <<cache, nextId, pluginOptions, offices, busy, req, resp, log,
                   cacheBefore, prevOp, syncs>>

\* an update of one cached document through the admin panel or the local API,
\* jobId unchanged: the hook validates nothing, resets every field to the
\* original's and stamps updatedAt; the document keeps its place in the
\* store's listing order (by creation)
updateJob ==
    /\ ~busy
    /\ \E i \in 1..Len(cache) :
        /\ cache[i].updatedAt # now
        /\ cache' = [cache EXCEPT ![i].updatedAt = now]
    /\ UNCHANGED <<nextId, now, pluginOptions, offices, busy, req, resp, log,
                   cacheBefore, prevOp, syncs>>

\* a collection grown past one page of find: FindLimit + 1 documents of
\* distinct jobs, left by syncs of a board with that many jobs
BigCache == [i \in 1..(FindLimit + 1) |-> NewDoc(0 - i, FindLimit + 2 - i, 0)]

Start(c) ==
    /\ cache = c
    /\ nextId = 1
    /\ now = 0
    /\ pluginOptions \in {o \in PluginOptionSets : ~o.urlToken /\ ~o.apiKey}
    /\ offices = <<>>
    /\ busy = FALSE
    /\ req = IdleReq
    /\ resp = IdleResp
    /\ log = <<>>
    /\ cacheBefore = <<>>
    /\ prevOp = "none"
    /\ syncs = IdleSyncs

\* the plugin starts on an empty collection
Init == Start(<<>>)

\* the plugin starts on a collection larger than one page of find
InitBig == Start(BigCache)

Next ==
    \/ greenhouseJobsHandler
    \/ greenhouseClearCacheHandler
    \/ greenhouseApplyHandler
    \/ Deliver
    \/ Tick
    \/ Wait

Spec == Init /\ [][Next]_vars

SpecBig == InitBig /\ [][Next]_vars

\* the jobs endpoint on a collection whose documents are also edited
NextEdit ==
    \/ greenhouseJobsHandler
    \/ updateJob
    \/ Deliver
    \/ Tick
    \/ Wait

SpecEdit == Init /\ [][NextEdit]_vars

\* two GET /jobs invocations of the cached variant, interleaved at their
\* awaits
NextRace ==
    \E p \in Procs :
        \/ syncFind(p)
        \/ syncList(p)
        \/ syncDelete(p)
        \/ syncDetails(p)
        \/ syncCreate(p)
        \/ syncReturn(p)
        \/ syncDeliver(p)

SpecRace == Init /\ [][NextRace]_vars

\* the environment-configured plugin in front of some office tree
InitOffices ==
    /\ cache = <<>>
    /\ nextId = 1
    /\ now = 0
    /\ pluginOptions \in {o \in PluginOptionSets :
                            o.cacheExpiryTime = 0 /\ ~o.apiKey}
    /\ offices \in Trees
    /\ busy = FALSE
    /\ req = IdleReq
    /\ resp = IdleResp
    /\ log = <<>>
    /\ cacheBefore = <<>>
    /\ prevOp = "none"
    /\ syncs = IdleSyncs

NextOffices ==
    \/ greenhouseJobsHandlerEnv
    \/ greenhouseClearCacheHandlerEnv
    \/ fetchAvailableJobs
    \/ debugHandler
    \/ Deliver

SpecOffices == InitOffices /\ [][NextOffices]_vars

\* the dashboard of the plugin in front of some office tree
NextDashboard ==
    \/ BeforeDashboardServer
    \/ refreshJobs
    \/ Deliver

SpecDashboard == InitOffices /\ [][NextDashboard]_vars

\* a board of one office with one department and one job
OneJobTree == <<(<<(<<1>>)>>)>>

\* the hook in front of some office tree, with and without a token
NextHook ==
    \/ beforeChange
    \/ Deliver
    \/ Tick

SpecHook == InitOffices /\ [][NextHook]_vars

\* the plugin function applied to some host configuration
NextPlugin ==
    \/ payloadGreenhouse
    \/ Deliver

SpecPlugin == Init /\ [][NextPlugin]_vars

\* every endpoint of either variant, under every configuration of the token
\* and the key, with the clock standing still
InitEndpoints ==
    /\ cache = <<>>
    /\ nextId = 1
    /\ now = 0
    /\ pluginOptions \in {o \in PluginOptionSets : o.cacheExpiryTime = 0}
    /\ offices = OneJobTree
    /\ busy = FALSE
    /\ req = IdleReq
    /\ resp = IdleResp
    /\ log = <<>>
    /\ cacheBefore = <<>>
    /\ prevOp = "none"
    /\ syncs = IdleSyncs

NextEndpoints ==
    \/ greenhouseJobsHandler
    \/ greenhouseApplyHandler
    \/ greenhouseClearCacheHandler
    \/ greenhouseJobsHandlerEnv
    \/ greenhouseApplyHandlerEnv
    \/ greenhouseClearCacheHandlerEnv
    \/ debugHandler
    \/ Deliver

SpecEndpoints == InitEndpoints /\ [][NextEndpoints]_vars

----------------------------------------------------------------------------
(* Vocabulary of the properties *)

Ids(docs) == {docs[i].id : i \in 1..Len(docs)}

JobIdsOf(docs) == [i \in 1..Len(docs) |-> docs[i].jobId]

Reverse(s) == [i \in 1..Len(s) |-> s[Len(s) + 1 - i]]

\* the age the spec gives a cached set: now minus the newest updatedAt
NewestUpdatedAt(docs) ==
    CHOOSE t \in {docs[i].updatedAt : i \in 1..Len(docs)} :
        \A i \in 1..Len(docs) : docs[i].updatedAt <= t

CacheAge == req.at - NewestUpdatedAt(cacheBefore)

\* the expiry, in milliseconds, of the request: the settings document's
\* cacheExpiryTime, else the plugin option's, else the default
ExpiryMs == CacheTime(req.settings, pluginOptions) * MsPerSecond

\* a GET /jobs that passed the configuration check and read the cache
JobsRequest ==
    /\ busy
    /\ req.op = "jobs"
    /\ req.storeFails = "none"
    /\ req.settings.present
    /\ req.settings.urlToken

\* the list request went out as the first upstream request
ListRequested == log # <<>> /\ log[1] = Event("GET jobs", 0)

\* the upstream list arrived and no delete threw
SyncRan == req.list.kind = "ok" /\ req.deleteFailAt = 0

\* a full sync happened: every listed cached document was deleted, the detail
\* of every upstream job was requested, and the response is the set of
\* documents created by this invocation, which the cache now holds
FullSync ==
    /\ resp.status = 200
    /\ \A i \in 1..Len(cacheBefore) :
            i <= FindLimit => Event("delete", cacheBefore[i].id) \in Range(log)
    /\ \A j \in Range(req.list.jobs) : Event("GET job", j) \in Range(log)
    /\ \A i \in 1..Len(resp.body) :
            /\ resp.body[i].updatedAt = req.at
            /\ resp.body[i].id \notin Ids(cacheBefore)
    /\ Ids(cache) \cap Ids(Find(cacheBefore)) = {}
    /\ SelectSeq(cache, LAMBDA d : d.id \notin Ids(cacheBefore)) = Reverse(resp.body)

ExpiredCacheSynced ==
    (JobsRequest /\ ~req.refresh /\ cacheBefore # <<>> /\ CacheAge > ExpiryMs)
        => /\ ListRequested
           /\ SyncRan => FullSync

ExpiredCacheSyncedWitness ==
    /\ JobsRequest /\ ~req.refresh /\ cacheBefore # <<>> /\ CacheAge > ExpiryMs
    /\ SyncRan
    /\ Len(resp.body) >= 2

\* C4: GET /jobs with refresh=true requests the upstream list and syncs
\* whatever the age of the cache, also when the cache is non-empty and fresh.
RefreshForcesSync ==
    (JobsRequest /\ req.refresh)
        => /\ ListRequested
           /\ SyncRan => FullSync

RefreshForcesSyncWitness ==
    /\ JobsRequest /\ req.refresh /\ cacheBefore # <<>> /\ CacheAge <= ExpiryMs
    /\ SyncRan
    /\ Len(resp.body) >= 1

\* the upstream jobs whose detail fetch succeeded, in list order
RECURSIVE Detailed(_, _)
Detailed(jobs, oc) ==
    IF jobs = <<>> THEN <<>>
    ELSE (IF Head(oc) \in {"detail_status", "detail_throw"} THEN <<>>
          ELSE <<Head(jobs)>>) \o Detailed(Tail(jobs), Tail(oc))

DetailFailures == {i \in 1..Len(req.outcome) :
                        req.outcome[i] \in {"detail_status", "detail_throw"}}

\* C5: a sync in which the detail fetch of some jobs fails (non-2xx answer or
\* network error) skips those jobs and still stores and returns every other
\* job of the upstream list; three jobs with one failing fetch leave two.
DetailFailureSkipsJob ==
    (JobsRequest /\ SyncRan /\ \A i \in 1..Len(req.outcome) :
                                    req.outcome[i] # "create_throw")
        => /\ resp.status = 200
           /\ JobIdsOf(resp.body) = Detailed(req.list.jobs, req.outcome)
           /\ Range(resp.body) \subseteq Range(cache)
           /\ Len(req.list.jobs) = 3 /\ Cardinality(DetailFailures) = 1
                /\ Len(cacheBefore) <= FindLimit
                => Len(cache) = 2

DetailFailureSkipsJobWitness ==
    /\ JobsRequest /\ SyncRan
    /\ req.list.jobs = <<1, 2, 3>>
    /\ req.outcome[2] = "detail_throw"
    /\ JobIdsOf(resp.body) = <<1, 3>>
    /\ Len(cache) = 2

\* C6: clear-cache deletes every job document that was cached when it was
\* called, for any cache size, and jobsRemoved is the number it deleted.
ClearCacheRemovesAll ==
    (busy /\ req.op = "clear-cache" /\ resp.status = 200)
        => /\ Ids(cache) \cap Ids(cacheBefore) = {}
           /\ resp.jobsRemoved = Len(cacheBefore) - Len(cache)

\* C7: when clear-cache is called twice in a row, the second call reports
\* jobsRemoved = 0 and the cache is empty after both calls.
SecondClearReportsZero ==
    (busy /\ req.op = "clear-cache" /\ resp.status = 200 /\ prevOp = "cleared")
        => /\ resp.jobsRemoved = 0
           /\ cacheBefore = <<>>
           /\ cache = <<>>

\* C10: POST /apply with an API key configured and a body in which jobId or
\* formData is missing answers 400 and sends nothing to the write API.
IncompleteApplicationRejected ==
    (/\ busy /\ req.op = "apply" /\ req.storeFails = "none"
     /\ req.settings.present /\ req.settings.apiKey
     /\ req.body.parsed /\ (~req.body.jobId \/ ~req.body.formData))
        => /\ resp.status = 400
           /\ log = <<>>

IncompleteApplicationRejectedWitness ==
    /\ busy /\ req.op = "apply" /\ req.settings.apiKey
    /\ req.body.parsed /\ req.body.jobId /\ ~req.body.formData
    /\ resp.status = 400

\* C11: POST /apply with no API key configured answers 400 whatever the body
\* of the request and sends nothing to the write API, in both variants of the
\* handler (the settings document, resp. the option or environment variable).
ApplyWithoutKeyRejected ==
    /\ (/\ busy /\ req.op = "apply" /\ req.storeFails = "none"
        /\ ~(req.settings.present /\ req.settings.apiKey))
            => resp.status = 400 /\ log = <<>>
    /\ (busy /\ req.op = "apply-env" /\ ~pluginOptions.apiKey)
            => resp.status = 400 /\ log = <<>>

ApplyWithoutKeyRejectedWitness ==
    /\ busy /\ req.op = "apply-env" /\ ~pluginOptions.apiKey
    /\ req.body.parsed /\ req.body.jobId /\ req.body.formData
    /\ resp.status = 400
    /\ log = <<>>

\* the places <<office, department, position>> of the job entries of a tree
Places(tree) ==
    UNION {UNION {{<<o, d, j>> : j \in 1..Len(tree[o][d])} : d \in 1..Len(tree[o])} :
           o \in 1..Len(tree)}

PlaceBefore(p, q) ==
    \/ p[1] < q[1]
    \/ p[1] = q[1] /\ p[2] < q[2]
    \/ p[1] = q[1] /\ p[2] = q[2] /\ p[3] < q[3]

\* the job entries of a tree in traversal order: offices, then departments,
\* then jobs, each in response order
Traversal(tree) ==
    LET ps == Places(tree)
        at(n) == CHOOSE p \in ps : Cardinality({q \in ps : PlaceBefore(q, p)}) = n - 1
    IN  [n \in 1..Cardinality(ps) |->
            Entry(at(n)[1], at(n)[2], tree[at(n)[1]][at(n)[2]][at(n)[3]])]

\* the entries of s that are the first of their job
FirstOccurrences(s) ==
    LET first == SelectSeq([i \in 1..Len(s) |-> i],
                           LAMBDA i : \A k \in 1..(i - 1) : s[k].job # s[i].job)
    IN  [n \in 1..Len(first) |-> s[first[n]]]

Distinct(s) == \A i, k \in 1..Len(s) : s[i] = s[k] => i = k

\* C8: the flatten step outputs at most one entry per job identifier for every
\* office tree, also when a job is listed under several offices or departments.
FlattenOneEntryPerJob ==
    /\ (busy /\ req.op = "jobs-env" /\ resp.kind = "jobs")
            => Distinct(JobIdsOf(resp.body))
    /\ (busy /\ req.op = "options" /\ resp.kind = "options")
            => Distinct([i \in 1..Len(resp.body) |-> resp.body[i].value])

\* office o of the tree lists the job
ListedIn(tree, o, job) == \E d \in 1..Len(tree[o]) : job \in Range(tree[o][d])

FlattenOneEntryPerJobWitness ==
    /\ busy /\ req.op = "jobs-env" /\ resp.kind = "jobs"
    /\ Len(offices) >= 2
    /\ \E job \in 1..MaxEntries :
            /\ ListedIn(offices, 1, job)
            /\ ListedIn(offices, Len(offices), job)
            /\ Cardinality({i \in 1..Len(resp.body) : resp.body[i].jobId = job}) = 1

\* C9: of a job that occurs several times in the tree the flatten step keeps
\* the first occurrence in traversal order with that occurrence's office and
\* department, and its output is in traversal order.
FlattenKeepsFirstOccurrence ==
    (busy /\ req.op = "jobs-env" /\ resp.kind = "jobs")
        => [i \in 1..Len(resp.body) |->
                Entry(resp.body[i].office, resp.body[i].department,
                      resp.body[i].jobId)]
           = FirstOccurrences(Traversal(offices))

FlattenKeepsFirstOccurrenceWitness ==
    /\ busy /\ req.op = "jobs-env" /\ resp.kind = "jobs"
    /\ Len(resp.body) = 2
    /\ Len(Traversal(offices)) = 3
    /\ resp.body[1].office # resp.body[2].office
    /\ Traversal(offices)[3].job = resp.body[1].jobId
    /\ Traversal(offices)[3].office # resp.body[1].office

\* the identifiers of the jobs an office tree lists
TreeJobIds(tree) == {Traversal(tree)[i].job : i \in 1..Len(Traversal(tree))}

\* C12: GET /debug returns in availableJobIds each upstream job identifier
\* exactly once, however often the tree lists the job, and totalJobs is the
\* number of distinct identifiers.
DebugListsEachIdOnce ==
    (busy /\ req.op = "debug" /\ resp.kind = "debug")
        => LET availableJobIds == [i \in 1..Len(resp.body) |-> resp.body[i].job]
           IN  /\ Range(availableJobIds) = TreeJobIds(offices)
               /\ Distinct(availableJobIds)
               /\ resp.totalJobs = Cardinality(TreeJobIds(offices))

\* C13: when the offices endpoint answers non-2xx, GET /debug answers with
\* that same status and an error body, never with 200.
DebugPropagatesStatus ==
    (busy /\ req.op = "debug" /\ req.list.kind = "status")
        => /\ resp.status = req.list.status
           /\ resp.kind = "error"
           /\ resp.status # 200

DebugPropagatesStatusWitness ==
    /\ busy /\ req.op = "debug"
    /\ req.list.kind = "status" /\ req.list.status = 401
    /\ resp.status = 401
    /\ resp.kind = "error"

\* C14: with cacheExpiryTime configured as 0 (in the settings document and in
\* the plugin options) every GET /jobs requests the upstream list, also on a
\* non-empty cache and without refresh=true.
ZeroExpiryDisablesCache ==
    (JobsRequest /\ req.settings.cacheExpiryTime = 0
                 /\ pluginOptions.cacheExpiryTime = 0)
        => ListRequested

\* C15: GET /jobs with no URL token configured answers 400 with an error,
\* sends nothing to the external API and leaves the cache as it was, in both
\* variants of the handler.
JobsWithoutTokenRejected ==
    /\ (/\ busy /\ req.op = "jobs" /\ req.storeFails = "none"
        /\ ~(req.settings.present /\ req.settings.urlToken))
            => /\ resp.status = 400 /\ resp.kind = "error"
               /\ log = <<>>
               /\ cache = cacheBefore
    /\ (busy /\ req.op = "jobs-env" /\ ~pluginOptions.urlToken)
            => /\ resp.status = 400 /\ resp.kind = "error"
               /\ log = <<>>
               /\ cache = cacheBefore

JobsWithoutTokenRejectedWitness ==
    /\ busy /\ req.op = "jobs-env" /\ ~pluginOptions.urlToken
    /\ resp.status = 400
    /\ cacheBefore # <<>>
    /\ cache = cacheBefore

\* the request of an endpoint
EndpointRequest ==
    /\ busy
    /\ req.op \in {"jobs", "apply", "clear-cache", "jobs-env", "apply-env",
                   "clear-cache-env", "debug"}

\* the application handler got as far as reading the body
BodyRead ==
    \/ req.op = "apply" /\ req.storeFails = "none"
            /\ req.settings.present /\ req.settings.apiKey
    \/ req.op = "apply-env" /\ pluginOptions.apiKey

\* an exception reached the catch block of the handler: the store failed, a
\* fetch outside a per-job try was rejected or its 2xx body was unreadable,
\* or the request body was unreadable
BoundaryException ==
    \/ req.storeFails # "none"
    \/ req.deleteFailAt > 0
    \/ req.list.kind \in {"throw", "badjson"}
    \/ req.op = "jobs-env" /\ \E i \in 1..Len(req.outcome) :
                                    req.outcome[i] = "detail_throw"
    \/ BodyRead /\ ~req.body.parsed

\* an exception was caught where it arose: the detail fetch or the create of
\* one job of the caching sync, or the reading of the write API's error body
InnerException ==
    \/ req.op = "jobs" /\ \E i \in 1..Len(req.outcome) :
                                req.outcome[i] \in {"detail_throw", "create_throw"}
    \/ req.list.kind = "status_nojson"

\* C16 as stated: every endpoint handler returns a response, and any
\* exception raised inside it, store and network failures included, makes
\* that response a 500.
EveryExceptionBecomes500 ==
    EndpointRequest
        => /\ resp.status # 0
           /\ (BoundaryException \/ InnerException) => resp.status = 500

\* C16 as amended: every endpoint handler returns a response, and any
\* exception that is not caught where it arose (a per-job detail fetch or
\* create of the caching sync, the reading of the write API's error body)
\* makes that response a 500 with an error body.
BoundaryExceptionsBecome500 ==
    EndpointRequest
        => /\ resp.status # 0
           /\ BoundaryException => resp.status = 500 /\ resp.kind = "error"

BoundaryExceptionsBecome500Witness ==
    /\ EndpointRequest /\ req.op = "jobs"
    /\ req.deleteFailAt = Len(cacheBefore) /\ Len(cacheBefore) >= 2
    /\ resp.status = 500
    /\ Len(cache) = 1

\* C17: a forwarded POST /apply answers with the write API's status when that
\* is non-2xx, with 200 and the write API's JSON body when it is 2xx, and
\* with 500 on a network or parse error.
ApplyProxiesUpstream ==
    (busy /\ req.op \in {"apply", "apply-env"}
          /\ Event("POST applications", 0) \in Range(log))
        => /\ req.list.kind \in {"status", "status_nojson"}
                => resp.status = req.list.status /\ resp.kind = "error"
           /\ req.list.kind = "ok"
                => /\ resp.status = 200
                   /\ resp.kind = "application"
                   /\ resp.body = req.list.jobs
           /\ req.list.kind \in {"throw", "badjson"} => resp.status = 500

ApplyProxiesUpstreamWitness ==
    /\ busy /\ req.op = "apply"
    /\ req.list.kind = "status_nojson" /\ req.list.status = 404
    /\ resp.status = 404

\* C18: when the hook runs for a create or for a jobId that differs from the
\* original's and the job fetch answers non-2xx, the write is rejected: with
\* a not-found error for 404, an unauthorized error for 401, and a generic
\* error carrying the status otherwise.
HookRejectsFailedFetch ==
    (busy /\ req.op = "beforeChange" /\ req.detail.kind = "status")
        => /\ req.operation = "create" \/ req.data.jobId # req.originalDoc.jobId
           /\ resp.kind = "throw"
           /\ req.detail.status = 404 => resp.error = "not_found"
           /\ req.detail.status = 401 => resp.error = "unauthorized"
           /\ req.detail.status \notin {404, 401}
                => resp.error = "api_error" /\ resp.status = req.detail.status

HookRejectsFailedFetchWitness ==
    /\ busy /\ req.op = "beforeChange" /\ req.operation = "update"
    /\ req.data.jobId.n = 2 /\ req.originalDoc.jobId.n = 1
    /\ req.detail.kind = "status" /\ req.detail.status = 401
    /\ resp.kind = "throw" /\ resp.error = "unauthorized"

\* the slugs of a list of collections
Slugs(list) == {list[i].slug : i \in 1..Len(list)}

\* C19: with the disabled option set the plugin still adds the greenhouse-jobs
\* collection and the greenhouseJobBoard field group of every named
\* collection the host has, but adds no endpoint and leaves endpoints, admin
\* and onInit as they were.
DisabledKeepsSchemaOnly ==
    (busy /\ req.op = "plugin" /\ req.options.disabled)
        => LET out == resp.body[1]
               named == Range(req.options.collections)
                            \cap Slugs(req.config.collections.list)
           IN  /\ out.collections.defined
               /\ "greenhouse-jobs" \in Slugs(out.collections.list)
               /\ Len(out.collections.list) = Len(req.config.collections.list) + 1
               /\ \A slug \in named :
                    \E i \in 1..Len(out.collections.list) :
                        /\ out.collections.list[i].slug = slug
                        /\ "greenhouseJobBoard" \in Range(out.collections.list[i].fields)
               /\ out.endpoints = req.config.endpoints
               /\ Range(out.endpoints.list) \cap Range(PluginEndpoints) = {}
               /\ out.admin = req.config.admin
               /\ out.onInit = req.config.onInit

DisabledKeepsSchemaOnlyWitness ==
    /\ busy /\ req.op = "plugin" /\ req.options.disabled
    /\ req.options.collections = <<"pages", "missing">>
    /\ "pages" \in Slugs(req.config.collections.list)
    /\ ~req.config.endpoints.defined
    /\ req.config.onInit = "incoming"
    /\ ~resp.body[1].endpoints.defined
    /\ resp.body[1].collections.list[1].fields = <<"title", "greenhouseJobBoard">>

\* C20: within one sync no cached job document is deleted or created before
\* every detail fetch of that invocation has completed: no store write
\* precedes a detail request.
NoWriteBeforeDetails ==
    (busy /\ req.op = "jobs")
        => \A i, j \in 1..Len(log) :
                (i < j /\ log[j].ev = "GET job")
                    => log[i].ev \notin {"delete", "create"}

\* the jobIds of the cached documents
CachedJobIds(docs) == {docs[i].jobId : i \in 1..Len(docs)}

ListErrorLeavesCache ==
    (JobsRequest /\ req.list.kind = "status")
        => /\ resp.status = req.list.status
           /\ resp.kind = "error"
           /\ resp.body = <<>>
           /\ cache = cacheBefore
           /\ log = <<Event("GET jobs", 0)>>

ListErrorLeavesCacheWitness ==
    /\ JobsRequest /\ req.list.kind = "status" /\ req.list.status = 404
    /\ Len(cacheBefore) = 2
    /\ cache = cacheBefore
    /\ resp.status = 404

\* how often an event is in a log, a value in a sequence
Count(s, x) == Cardinality({i \in 1..Len(s) : s[i] = x})

\* C25: no handler retries an upstream call: one invocation issues the list
\* (or offices) request and the application submit at most once, and at most
\* one detail request per entry of the list it walks, failed or not.
NoUpstreamRetry ==
    EndpointRequest
        => /\ Count(log, Event("GET jobs", 0)) <= 1
           /\ Count(log, Event("GET offices", 0)) <= 1
           /\ Count(log, Event("POST applications", 0)) <= 1
           /\ \A j \in 1..MaxJobs :
                Count(log, Event("GET job", j))
                    <= IF req.op = "jobs" THEN Count(req.list.jobs, j) ELSE 1

NoUpstreamRetryWitness ==
    /\ busy /\ req.op = "jobs" /\ SyncRan
    /\ req.list.jobs = <<1, 2>>
    /\ req.outcome[2] = "detail_throw"
    /\ Count(log, Event("GET job", 2)) = 1
    /\ resp.status = 200

\* the jobs of a sync whose document was created, in list order
RECURSIVE Created(_, _)
Created(jobs, oc) ==
    IF jobs = <<>> THEN <<>>
    ELSE (IF Head(oc) = "ok" THEN <<Head(jobs)>> ELSE <<>>)
         \o Created(Tail(jobs), Tail(oc))

\* the documents of a cache that an earlier cache did not hold, oldest first
NewDocs(c, before) ==
    Reverse(SelectSeq(c, LAMBDA d : d.id \notin Ids(before)))

\* C28: a failing create of one job document does not abort the sync: every
\* other job whose detail arrived is still created, the response is 200 and
\* its body is exactly the documents this invocation created.
CreateFailureSkipsJob ==
    (JobsRequest /\ SyncRan)
        => /\ resp.status = 200
           /\ resp.kind = "jobs"
           /\ JobIdsOf(resp.body) = Created(req.list.jobs, req.outcome)
           /\ resp.body = NewDocs(cache, cacheBefore)
           /\ \A i \in 1..Len(req.outcome) :
                req.outcome[i] \in {"ok", "create_throw"}
                    => Event("create", req.list.jobs[i]) \in Range(log)

CreateFailureSkipsJobWitness ==
    /\ JobsRequest /\ SyncRan
    /\ req.list.jobs = <<1, 2, 3>>
    /\ req.outcome[2] = "create_throw"
    /\ JobIdsOf(resp.body) = <<1, 3>>
    /\ CachedJobIds(cache) = {1, 3}
    /\ resp.status = 200

\* the fields of a job document the hook handles, and whether a value of one
\* is defined
HookFields == {"jobId", "title", "department", "office"}

Empty(f) == IF f = "jobId" THEN NoJobId ELSE IF f = "title" THEN "" ELSE 0

\* C27: on an update that passes the beforeChange hook, every field that has
\* a defined value in the original document leaves the hook with the original
\* value, jobId included, and updatedAt leaves it as the current time.
UpdateKeepsOriginalFields ==
    (busy /\ req.op = "beforeChange" /\ req.operation = "update"
        /\ resp.kind = "data")
        => LET out == resp.body[1]
           IN  /\ \A f \in HookFields :
                    req.originalDoc[f] # Empty(f) => out[f] = req.originalDoc[f]
               /\ out.updatedAt = req.at

UpdateKeepsOriginalFieldsWitness ==
    /\ busy /\ req.op = "beforeChange" /\ req.operation = "update"
    /\ req.data.jobId.n = 2 /\ req.originalDoc.jobId.n = 1
    /\ req.originalDoc.title = "original"
    /\ req.detail.kind = "ok"
    /\ resp.kind = "data"
    /\ resp.body[1].jobId = req.originalDoc.jobId
    /\ resp.body[1].title = "original"
    /\ req.at > req.originalDoc.updatedAt
    /\ resp.body[1].updatedAt = req.at

\* C29: in the sequential variant a detail fetch that throws ends the request
\* with a 500 and no job list; a detail fetch that answers non-2xx keeps the
\* job in the list, with no questions.
SequentialDetailFailures ==
    (busy /\ req.op = "jobs-env" /\ req.list.kind = "ok")
        => IF \E i \in 1..Len(req.outcome) : req.outcome[i] = "detail_throw"
           THEN resp.status = 500 /\ resp.kind = "error" /\ resp.body = <<>>
           ELSE /\ resp.status = 200
                /\ resp.kind = "jobs"
                /\ Len(resp.body) = Len(req.outcome)
                /\ Len(resp.body) = Cardinality(TreeJobIds(offices))
                /\ {resp.body[i].jobId : i \in 1..Len(resp.body)}
                        = TreeJobIds(offices)
                /\ \A i \in 1..Len(resp.body) :
                        resp.body[i].questions = (req.outcome[i] = "ok")

SequentialDetailFailuresWitness ==
    /\ busy /\ req.op = "jobs-env" /\ req.list.kind = "ok"
    /\ Len(req.outcome) = 2
    /\ req.outcome[1] = "detail_status"
    /\ resp.status = 200
    /\ Len(resp.body) = 2
    /\ ~resp.body[1].questions
    /\ resp.body[2].questions

\* C23: the age GET /jobs compares against the expiry is the current time
\* minus the newest updatedAt among all cached documents: without refresh, a
\* non-empty cache is served exactly when that age is within the expiry.
AgeFromNewestDocument ==
    (JobsRequest /\ ~req.refresh /\ cacheBefore # <<>>)
        => (CacheAge <= ExpiryMs <=> log = <<>> /\ resp.body = Find(cacheBefore))

\* the place of an event in a log, 0 when it is not there
At(l, ev) ==
    IF \E i \in 1..Len(l) : l[i].ev = ev
    THEN CHOOSE i \in 1..Len(l) : l[i].ev = ev ELSE 0

\* C26: the refresh action calls clear-cache first, calls GET /jobs with
\* refresh=true only after clear-cache answered 2xx and reloads the view only
\* after that sync answered 2xx; when either call fails the view is not
\* reloaded and loading is false again.
RefreshInOrder ==
    (busy /\ req.op = "refreshJobs")
        => LET clearOk == req.list.kind = "ok"
               syncOk == req.detail.kind = "ok"
           IN  /\ At(log, "POST clear-cache") = 1
               /\ At(log, "GET jobs?refresh=true") = IF clearOk THEN 2 ELSE 0
               /\ At(log, "reload") = IF clearOk /\ syncOk THEN 3 ELSE 0
               /\ Len(log) <= 3
               /\ ~(clearOk /\ syncOk)
                    => resp.kind = "stayed" /\ ~resp.loading

RefreshInOrderWitness ==
    /\ busy /\ req.op = "refreshJobs"
    /\ req.list.kind = "ok"
    /\ req.detail.kind = "status" /\ req.detail.status = 500
    /\ log = <<Event("POST clear-cache", 0), Event("GET jobs?refresh=true", 0)>>
    /\ resp.kind = "stayed" /\ ~resp.loading

\* C30: the server component always renders the widget: with an empty job
\* list when the plugin options are unset or the handler's body is no list
\* (the error object of a failed or throwing handler run), else with one
\* widget job per job of the handler's body, in order.
ServerComponentRenders ==
    (busy /\ req.op = "BeforeDashboardServer")
        => /\ resp.kind = "widget"
           /\ IF ~req.configured \/ req.detail.kind # "jobs"
              THEN resp.body = <<>>
              ELSE /\ Len(resp.body) = Len(req.detail.body)
                   /\ \A i \in 1..Len(resp.body) :
                        /\ resp.body[i].id = String(req.detail.body[i].id)
                        /\ resp.body[i].jobId = req.detail.body[i].jobId

ServerComponentRendersWitness ==
    /\ busy /\ req.op = "BeforeDashboardServer"
    /\ req.configured /\ req.variant = "env"
    /\ req.detail.kind = "error" /\ req.detail.status = 500
    /\ req.list.kind = "ok"
    /\ resp.kind = "widget" /\ resp.body = <<>> /\ resp.settings

\* C21: when two GET /jobs invocations interleave on one cache, each of them
\* still completes with a success response: neither is failed by the other's
\* deletes or creates.
InterleavedSyncsSucceed ==
    \A p \in Procs : syncs[p].pc = "done" => syncs[p].status = 200

====
